---- MODULE Spec2Model ----
\* Description-enhancement subsystem of the products service:
\*   ai.Cache (in-process tier + optional Dapr tier), ai.Client.GenerateDescription,
\*   API.enhanceDescription, and the Prometheus recorders they call.
\* Time is counted in hours; strings the code inspects are sequences of characters.
EXTENDS Integers, Sequences, FiniteSets, TLC

\* ---------------------------------------------------------------- bounds
MaxTicks == 3          \* the clock advances this many times
MaxDescLen == 22       \* longest description handed to GenerateDescription on its own
MaxCatalog == 2        \* products in the catalog

\* ------------------------------------------------------ program constants
cacheTTL == 24                 \* 24 * time.Hour
PlaceholderMinLen == 20        \* len(desc) < 20
SecondsPerHour == 3600         \* Duration.Seconds()

TickHours == cacheTTL \div 2   \* granularity of the clock
MaxTime == MaxTicks * TickHours

\* ---------------------------------------------------------------- values
Procs == {"req1", "req2"}      \* concurrent request goroutines
ProductIDs == {"p1"}           \* the product the concurrent callers ask about
AllIDs == <<"p1", "p2", "p3">>
CatalogIDs == {AllIDs[i] : i \in 1..MaxCatalog}   \* the products the service lists

Chars(n, c) == [i \in 1..n |-> c]

Empty == <<>>
Short == <<"s", "h", "o", "r", "t">>
RealDesc == Chars(PlaceholderMinLen, "x")
GenA == <<"A", " ", "g", "r", "e", "a", "t", " ", "w", "i", "d", "g", "e", "t", ".">>
GenB == <<"B", "e", "s", "t", ".">>

Descs == {Short, RealDesc}             \* current descriptions the product service supplies
Texts == {Empty, GenA}                 \* contents the generation service may answer with
Values == {Empty, GenA, GenB}          \* values a direct caller of Cache.Set passes

\* Descriptions a direct caller of GenerateDescription passes: every string
\* x..x . .. x..x . .. of up to MaxDescLen bytes with at most three dots in each
\* run, and one long plain sentence.
Run(a, b, c, d) == Chars(a, "x") \o Chars(b, ".") \o Chars(c, "x") \o Chars(d, ".")
GenDescs ==
    {Run(a, b, c, d) : <<a, b, c, d>> \in
        {t \in (0..MaxDescLen) \X (0..3) \X (0..MaxDescLen) \X (0..3) :
            t[1] + t[2] + t[3] + t[4] <= MaxDescLen}}
    \cup {Chars(50, "x")}

NilErr == "nil"
ErrGetState == "dapr: GetState failed"
ErrSaveState == "dapr: SaveState failed"
ErrTransport == "failed to generate description"
ErrNoDescription == "no description generated"

\* fmt.Sprintf("ai-desc-%s", productID)
Key(productID) == <<"ai-desc-", productID>>
KeySet == {Key(id) : id \in CatalogIDs}

NoEntry == [ok |-> FALSE, value |-> Empty, expiresAt |-> 0]
NoItem == [value |-> Empty, ttlInSeconds |-> 0]
NoSet == [proc |-> "none", value |-> Empty, at |-> 0]

VARIABLES
    aiClient,     \* TRUE iff API.aiClient != nil
    aiCache,      \* TRUE iff API.aiCache != nil
    rq,           \* per goroutine: the HTTP handler in progress
    daprClient,   \* TRUE iff Cache.daprClient != nil
    memCache,     \* Cache.memCache : key -> cacheEntry (ok = FALSE: key absent)
    mu,           \* Cache.mu : [r: goroutines holding RLock, w: goroutines holding Lock]
    store,        \* the Dapr state store "statestore": key -> item
    now,          \* time.Now(), in hours
    fr,           \* per goroutine: the call in progress, its position and locals
    lastSet       \* history: per key, the latest in-process write by Cache.Set

vars == <<aiClient, aiCache, rq, daprClient, memCache, mu, store, now, fr, lastSet>>

\* ------------------------------------------------------------- metrics
\* Each recorder increments one labelled series; fr[p].metrics lists the
\* increments made by the call in progress, in order.
RecordRequest(ms, status) == Append(ms, <<"ai_description_requests_total", status>>)
RecordCacheHit(ms) == Append(ms, <<"ai_description_cache_hits_total", "">>)
RecordLatency(ms) == Append(ms, <<"ai_description_latency_seconds", "">>)
RecordError(ms, errorType) == Append(ms, <<"ai_description_errors_total", errorType>>)

Count(ms, ev) == Cardinality({i \in 1..Len(ms) : ms[i] = ev})

\* ------------------------------------------------------------- strings
\* strings.Contains(desc, "...")
ContainsEllipsis(desc) ==
    \E i \in 1..(Len(desc) - 2) : desc[i] = "." /\ desc[i+1] = "." /\ desc[i+2] = "."

\* Mutant: a description of exactly 20 bytes counts as a placeholder too.
isPlaceholder_atMost20(desc) ==
    IF Len(desc) <= PlaceholderMinLen THEN TRUE
    ELSE IF ContainsEllipsis(desc) THEN TRUE
    ELSE FALSE

\* len(desc) counts bytes; a description is modelled as its sequence of bytes.
isPlaceholder(desc) ==
    IF Len(desc) < PlaceholderMinLen THEN TRUE
    ELSE IF ContainsEllipsis(desc) THEN TRUE
    ELSE FALSE

\* --------------------------------------------------------------- frames
IdleFrame ==
    [op |-> "none", pc |-> "idle", id |-> "p1", desc |-> Empty, value |-> Empty,
     \* Cache.Get: history of what the in-process read and the Dapr read met
     sawOk |-> FALSE, sawFresh |-> FALSE, sawValue |-> Empty,
     setSeen |-> "none", setValue |-> Empty, setFailed |-> FALSE,
     durableReads |-> 0, durable |-> "none",
     cached |-> Empty, getErr |-> NilErr,
     \* GenerateDescription
     description |-> Empty, genErr |-> NilErr, genCalls |-> 0, extCalls |-> 0,
     answer |-> "none",     \* history: how the request to the service ended
     \* Cache.Set: history of the write (same: a direct Set replaced an equal value)
     setCalls |-> 0, setErr |-> NilErr, same |-> FALSE,
     result |-> Empty, metrics |-> <<>>]

\* the handler's locals: the products it fetched (orig) and the ones it answers with
IdleReq ==
    [kind |-> "none", pc |-> "idle", orig |-> <<>>, products |-> <<>>,
     i |-> 0, attempts |-> 0, status |-> 0]

\* The service after main() found the endpoint configured and built the client:
\* aiClient is set and aiCache is one of NewCache(daprClient), NewMemoryCache().
Init ==
    /\ aiClient = TRUE /\ aiCache = TRUE
    /\ rq = [p \in Procs |-> IdleReq]
    /\ daprClient \in BOOLEAN
    /\ memCache = [k \in KeySet |-> NoEntry]
    /\ mu = [r |-> {}, w |-> {}]
    /\ store \in [KeySet -> {NoItem, [value |-> GenB, ttlInSeconds |-> cacheTTL * SecondsPerHour]}]
    /\ \A id \in CatalogIDs \ ProductIDs : store[Key(id)] = NoItem
    /\ (~daprClient => store = [k \in KeySet |-> NoItem])
    /\ now = 0
    /\ fr = [p \in Procs |-> IdleFrame]
    /\ lastSet = [k \in KeySet |-> NoSet]

\* ------------------------------------------------ API.enhanceDescription
\* The orchestrator's code between its calls. Each operator takes the frame
\* with the callee's results stored and yields the frame after the branch.

\* Mutant: a failed cache write ends the call before the success metrics.
enhanceAfterSet_returnsEarly(f) ==
    IF f.setErr # NilErr
    THEN [f EXCEPT !.metrics = RecordError(@, "cache_failed"),
                   !.result = f.description, !.pc = "done"]
    ELSE [f EXCEPT !.metrics = RecordLatency(RecordRequest(@, "success")),
                   !.result = f.description, !.pc = "done"]

\* if err := api.aiCache.Set(...); err != nil { RecordError }; success; latency; return
enhanceAfterSet(f) ==
    LET m1 == IF f.setErr # NilErr THEN RecordError(f.metrics, "cache_failed") ELSE f.metrics
    IN [f EXCEPT !.metrics = RecordLatency(RecordRequest(m1, "success")),
                 !.result = f.description, !.pc = "done"]

\* Mutant: the fallback returns the (empty) generated description.
enhanceAfterGenerate_returnsGenerated(f) ==
    IF f.genErr # NilErr
    THEN [f EXCEPT !.metrics = RecordRequest(RecordError(@, "generation_failed"), "error"),
                   !.result = f.description, !.pc = "done"]
    ELSE [f EXCEPT !.value = f.description, !.setCalls = @ + 1, !.pc = "set_lock"]

\* Mutant: a failed generation is attempted once more.
enhanceAfterGenerate_retriesOnce(f) ==
    IF f.genErr # NilErr
    THEN IF f.genCalls < 2
         THEN [f EXCEPT !.genCalls = @ + 1, !.extCalls = @ + 1, !.pc = "gen_wait"]
         ELSE [f EXCEPT !.metrics = RecordRequest(RecordError(@, "generation_failed"), "error"),
                        !.result = f.desc, !.pc = "done"]
    ELSE [f EXCEPT !.value = f.description, !.setCalls = @ + 1, !.pc = "set_lock"]

\* Mutant: the fallback description is written to the cache as well.
enhanceAfterGenerate_cachesFallback(f) ==
    IF f.genErr # NilErr
    THEN [f EXCEPT !.metrics = RecordRequest(RecordError(@, "generation_failed"), "error"),
                   !.value = f.desc, !.setCalls = @ + 1, !.pc = "set_lock"]
    ELSE [f EXCEPT !.value = f.description, !.setCalls = @ + 1, !.pc = "set_lock"]

\* description, err := api.aiClient.GenerateDescription(...); if err != nil { fallback }
enhanceAfterGenerate(f) ==
    IF f.genErr # NilErr
    THEN [f EXCEPT !.metrics = RecordRequest(RecordError(@, "generation_failed"), "error"),
                   !.result = f.desc, !.pc = "done"]
    ELSE [f EXCEPT !.value = f.description, !.setCalls = @ + 1, !.pc = "set_lock"]

GenReturns(f, description, err) ==
    LET g == [f EXCEPT !.description = description, !.genErr = err]
    IN IF f.op = "Generate" THEN [g EXCEPT !.pc = "done"] ELSE enhanceAfterGenerate(g)

\* Mutant: every description is sent to the generation service.
GenerateDescription_alwaysCalls(f) ==
    [f EXCEPT !.genCalls = @ + 1, !.extCalls = @ + 1, !.pc = "gen_wait"]

\* GenerateDescription up to its network call:
\* if !isPlaceholder(currentDesc) { return currentDesc, nil }; else call the service
GenerateDescription(f) ==
    LET g == [f EXCEPT !.genCalls = @ + 1]
    IN IF ~isPlaceholder(g.desc)
       THEN GenReturns(g, g.desc, NilErr)
       ELSE [g EXCEPT !.extCalls = @ + 1, !.pc = "gen_wait"]

\* Get's locals are gone once the orchestrator has moved past its lookup.
DropGetLocals(f) ==
    [f EXCEPT !.sawOk = FALSE, !.sawValue = Empty, !.setSeen = "none",
              !.setValue = Empty, !.setFailed = FALSE, !.durable = "none"]

\* Mutant: a cache error ends the call with the original description.
enhanceAfterGet_errorIsFatal(f) ==
    IF f.getErr # NilErr
    THEN [f EXCEPT !.result = f.desc, !.pc = "done"]
    ELSE IF f.cached # Empty
    THEN [f EXCEPT !.metrics = RecordCacheHit(@), !.result = f.cached, !.pc = "done"]
    ELSE GenerateDescription(DropGetLocals(f))

\* Mutant: a cache hit is returned without counting it.
enhanceAfterGet_silentHit(f) ==
    IF f.getErr = NilErr /\ f.cached # Empty
    THEN [f EXCEPT !.result = f.cached, !.pc = "done"]
    ELSE GenerateDescription(DropGetLocals(f))

\* cached, err := api.aiCache.Get(...); if err == nil && cached != "" { hit }
enhanceAfterGet(f) ==
    IF f.getErr = NilErr /\ f.cached # Empty
    THEN [f EXCEPT !.metrics = RecordCacheHit(@), !.result = f.cached, !.pc = "done"]
    ELSE GenerateDescription(DropGetLocals(f))

\* ------------------------------------------------ returns to the caller
GetReturns(f, value, err) ==
    LET g == [f EXCEPT !.cached = value, !.getErr = err]
    IN IF f.op = "Get" THEN [g EXCEPT !.pc = "done"] ELSE enhanceAfterGet(g)

SetReturns(f, err) ==
    LET g == [f EXCEPT !.setErr = err]
    IN IF f.op = "Set" THEN [g EXCEPT !.pc = "done"] ELSE enhanceAfterSet(g)

\* ------------------------------------------------------------ Cache.Get
\* Mutant: an entry is still served at the instant it expires.
Before_orEqual(t, expiresAt) == t <= expiresAt

\* time.Now().Before(entry.expiresAt)
Before(t, expiresAt) == t < expiresAt

\* c.mu.RLock()
GetRLock(p) ==
    /\ fr[p].pc = "get_rlock"
    /\ mu.w = {}
    /\ mu' = [mu EXCEPT !.r = @ \cup {p}]
    /\ fr' = [fr EXCEPT ![p].pc = "get_read"]
    /\ UNCHANGED <<aiClient, aiCache, rq, daprClient, memCache, store, now, lastSet>>

\* Mutant: with a Dapr tier configured, the Dapr tier is asked first.
GetMemLookup_durableFirst(f, entry, t, dapr) ==
    IF dapr
    THEN [f EXCEPT !.pc = "get_dapr"]
    ELSE IF entry.ok /\ Before(t, entry.expiresAt)
         THEN GetReturns(f, entry.value, NilErr)
         ELSE GetReturns(f, Empty, NilErr)

\* The frame after the in-process lookup: entry fresh -> return it; otherwise go
\* to the Dapr tier when there is one, else return "", nil.
GetMemLookup(f, entry, t, dapr) ==
    IF entry.ok /\ Before(t, entry.expiresAt)
    THEN GetReturns(f, entry.value, NilErr)
    ELSE IF dapr
         THEN [f EXCEPT !.pc = "get_dapr"]
         ELSE GetReturns(f, Empty, NilErr)

\* Mutant: the read lock is kept while the call goes on to the Dapr tier or to
\* the generation service.
GetRead_keepsRLock(p) ==
    /\ fr[p].pc = "get_read"
    /\ LET k == Key(fr[p].id)
           f == [fr[p] EXCEPT
                    !.sawOk = memCache[k].ok,
                    !.sawFresh = (memCache[k].ok /\ now < memCache[k].expiresAt),
                    !.sawValue = memCache[k].value]
       IN fr' = [fr EXCEPT ![p] = GetMemLookup(f, memCache[k], now, daprClient)]
    /\ mu' = IF fr'[p].pc = "done" THEN [mu EXCEPT !.r = @ \ {p}] ELSE mu
    /\ UNCHANGED <<aiClient, aiCache, rq, daprClient, memCache, store, now, lastSet>>

\* entry, ok := c.memCache[key]; expiry test; c.mu.RUnlock()
GetRead(p) ==
    /\ fr[p].pc = "get_read"
    /\ LET k == Key(fr[p].id)
           f == [fr[p] EXCEPT
                    !.sawOk = memCache[k].ok,
                    !.sawFresh = (memCache[k].ok /\ now < memCache[k].expiresAt),
                    !.sawValue = memCache[k].value,
                    !.setSeen = IF lastSet[k].proc = "none" THEN "none"
                                ELSE IF now < lastSet[k].at + cacheTTL THEN "live"
                                ELSE IF now = lastSet[k].at + cacheTTL THEN "at_expiry"
                                ELSE "expired",
                    !.setValue = lastSet[k].value,
                    !.setFailed = \E q \in Procs :
                                     /\ lastSet[k].proc = q
                                     /\ fr[q].pc = "done" /\ fr[q].setCalls > 0
                                     /\ fr[q].id = fr[p].id
                                     /\ fr[q].setErr # NilErr]
       IN fr' = [fr EXCEPT ![p] = GetMemLookup(f, memCache[k], now, daprClient)]
    /\ mu' = [mu EXCEPT !.r = @ \ {p}]
    /\ UNCHANGED <<aiClient, aiCache, rq, daprClient, memCache, store, now, lastSet>>

\* What the state store answers for a key: the bytes saved under it, if any.
\* (When the store drops an item on its ttlInSeconds is the store's business.)
GetState(k) == store[k].value

\* item, err := c.daprClient.GetState(...); err -> "", err; empty -> "", nil
GetDaprResult(f, failed, item) ==
    IF failed THEN GetReturns(f, Empty, ErrGetState)
    ELSE IF Len(item) = 0 THEN GetReturns(f, Empty, NilErr)
    ELSE GetReturns(f, item, NilErr)

\* Mutant: a value found in the Dapr tier is copied into the in-process tier.
GetDapr_backfill(p) ==
    /\ fr[p].pc = "get_dapr"
    /\ \E failed \in BOOLEAN :
         LET k == Key(fr[p].id)
             item == GetState(k)
             f == [fr[p] EXCEPT !.durableReads = @ + 1,
                                !.durable = IF failed THEN "failed"
                                            ELSE IF item = Empty THEN "empty"
                                            ELSE "item"]
         IN /\ fr' = [fr EXCEPT ![p] = GetDaprResult(f, failed, item)]
            /\ memCache' = IF failed \/ item = Empty THEN memCache
                           ELSE [memCache EXCEPT ![k] =
                                    [ok |-> TRUE, value |-> item, expiresAt |-> now + cacheTTL]]
    /\ UNCHANGED <<aiClient, aiCache, rq, daprClient, mu, store, now, lastSet>>

GetDapr(p) ==
    /\ fr[p].pc = "get_dapr"
    /\ \E failed \in BOOLEAN :
         LET item == GetState(Key(fr[p].id))
             f == [fr[p] EXCEPT !.durableReads = @ + 1,
                                !.durable = IF failed THEN "failed"
                                            ELSE IF item = Empty THEN "empty"
                                            ELSE "item"]
         IN fr' = [fr EXCEPT ![p] = GetDaprResult(f, failed, item)]
    /\ UNCHANGED <<aiClient, aiCache, rq, daprClient, memCache, mu, store, now, lastSet>>

\* ------------------------------------------------------------ Cache.Set
\* Mutant: Lock waits for other writers only, not for readers.
SetLock_ignoresReaders(p) ==
    /\ fr[p].pc = "set_lock"
    /\ mu.w = {}
    /\ mu' = [mu EXCEPT !.w = {p}]
    /\ fr' = [fr EXCEPT ![p].pc = "set_write"]
    /\ UNCHANGED <<aiClient, aiCache, rq, daprClient, memCache, store, now, lastSet>>

\* c.mu.Lock()
SetLock(p) ==
    /\ fr[p].pc = "set_lock"
    /\ mu.r = {} /\ mu.w = {}
    /\ mu' = [mu EXCEPT !.w = {p}]
    /\ fr' = [fr EXCEPT ![p].pc = "set_write"]
    /\ UNCHANGED <<aiClient, aiCache, rq, daprClient, memCache, store, now, lastSet>>

\* Mutant: an entry already present is kept.
NewEntry_keepExisting(old, description, t) ==
    IF old.ok THEN old
    ELSE [ok |-> TRUE, value |-> description, expiresAt |-> t + cacheTTL]

\* cacheEntry{value: description, expiresAt: time.Now().Add(cacheTTL)}
NewEntry(old, description, t) ==
    [ok |-> TRUE, value |-> description, expiresAt |-> t + cacheTTL]

\* c.memCache[key] = cacheEntry{...}; c.mu.Unlock(); then Dapr if available
SetWrite(p) ==
    /\ fr[p].pc = "set_write"
    /\ LET k == Key(fr[p].id)
           f == [fr[p] EXCEPT !.same = /\ fr[p].op = "Set"
                                       /\ memCache[k].ok
                                       /\ memCache[k].value = fr[p].value]
       IN /\ memCache' = [memCache EXCEPT ![k] = NewEntry(memCache[k], f.value, now)]
          /\ lastSet' = [lastSet EXCEPT ![k] =
                 [proc |-> p, value |-> f.value, at |-> now]]
          /\ fr' = [fr EXCEPT ![p] =
                 IF daprClient THEN [f EXCEPT !.pc = "set_dapr"]
                 ELSE SetReturns(f, NilErr)]
    /\ mu' = [mu EXCEPT !.w = @ \ {p}]
    /\ UNCHANGED <<aiClient, aiCache, rq, daprClient, store, now>>

\* metadata "ttlInSeconds": int(cacheTTL.Seconds())
ttlInSeconds == cacheTTL * SecondsPerHour

\* c.daprClient.SaveState(ctx, stateStoreName, key, []byte(description), metadata)
SaveState(k, value, metadata) ==
    [store EXCEPT ![k] = [value |-> value, ttlInSeconds |-> metadata]]

\* Mutant: a failed SaveState removes the in-process entry again.
SetDapr_undoOnFailure(p) ==
    /\ fr[p].pc = "set_dapr"
    /\ LET k == Key(fr[p].id)
       IN \/ /\ store' = SaveState(k, fr[p].value, ttlInSeconds)
             /\ fr' = [fr EXCEPT ![p] = SetReturns(fr[p], NilErr)]
             /\ UNCHANGED memCache
          \/ /\ UNCHANGED store
             /\ fr' = [fr EXCEPT ![p] = SetReturns(fr[p], ErrSaveState)]
             /\ memCache' = [memCache EXCEPT ![k] = NoEntry]
    /\ UNCHANGED <<aiClient, aiCache, rq, daprClient, mu, now, lastSet>>

SetDapr(p) ==
    /\ fr[p].pc = "set_dapr"
    /\ LET k == Key(fr[p].id)
       IN \/ /\ store' = SaveState(k, fr[p].value, ttlInSeconds)
             /\ fr' = [fr EXCEPT ![p] = SetReturns(fr[p], NilErr)]
          \/ /\ UNCHANGED store
             /\ fr' = [fr EXCEPT ![p] = SetReturns(fr[p], ErrSaveState)]
    /\ UNCHANGED <<aiClient, aiCache, rq, daprClient, memCache, mu, now, lastSet>>

\* ------------------------------------------ Client.GenerateDescription
NilMessage == [hasMessage |-> FALSE, hasContent |-> FALSE, content |-> Empty]
NilContent == [hasMessage |-> TRUE, hasContent |-> FALSE, content |-> Empty]
Message(t) == [hasMessage |-> TRUE, hasContent |-> TRUE, content |-> t]

\* What GetChatCompletions can come back with before its context is done: an
\* error of its own (transport, service) or a response with zero or one choice.
Responses ==
    {[err |-> TRUE, choices |-> <<>>]}
    \cup {[err |-> FALSE, choices |-> cs] :
            cs \in {<<>>, <<NilMessage>>, <<NilContent>>} \cup {<<Message(t)>> : t \in Texts}}

\* The (description, error) pair GenerateDescription builds from the response.
GenerateResult(resp) ==
    IF resp.err THEN <<Empty, ErrTransport>>
    ELSE IF Len(resp.choices) = 0 \/ ~resp.choices[1].hasMessage \/ ~resp.choices[1].hasContent
         THEN <<Empty, ErrNoDescription>>
         ELSE <<resp.choices[1].content, NilErr>>

\* Which of the cases GenerateDescription tells apart a response falls under.
AnswerKind(resp) ==
    IF resp.err THEN "error"
    ELSE IF Len(resp.choices) = 0 THEN "no_choices"
    ELSE IF ~resp.choices[1].hasMessage THEN "nil_message"
    ELSE IF ~resp.choices[1].hasContent THEN "nil_content"
    ELSE "content"

\* resp, err := c.openai.GetChatCompletions(ctx, ...) returns
GenRespond(p) ==
    /\ fr[p].pc = "gen_wait"
    /\ \E resp \in Responses :
         LET r == GenerateResult(resp)
             f == [fr[p] EXCEPT !.answer = AnswerKind(resp)]
         IN fr' = [fr EXCEPT ![p] = GenReturns(f, r[1], r[2])]
    /\ UNCHANGED <<aiClient, aiCache, rq, daprClient, memCache, mu, store, now, lastSet>>

\* Mutant: the request is sent with a context that has no deadline.
GenDeadline_none(p) ==
    /\ fr[p].pc = "gen_wait"
    /\ FALSE
    /\ UNCHANGED vars

\* ctx, cancel := context.WithTimeout(ctx, generationTimeout): the context is
\* done (the 5 s deadline passed, or the request's own context was cancelled)
\* before the service answered; GetChatCompletions returns the context's error.
GenDeadline(p) ==
    /\ fr[p].pc = "gen_wait"
    /\ LET f == [fr[p] EXCEPT !.answer = "deadline"]
       IN fr' = [fr EXCEPT ![p] = GenReturns(f, Empty, ErrTransport)]
    /\ UNCHANGED <<aiClient, aiCache, rq, daprClient, memCache, mu, store, now, lastSet>>

\* ------------------------------------------------------------- callers
\* Mutant: the handlers enhance whatever the configuration.
enhancementAvailable_always(client, cache) == TRUE

\* if api.aiClient != nil && api.aiCache != nil
enhancementAvailable(client, cache) == client /\ cache

\* the frame of a call api.enhanceDescription(ctx, id, name, description)
EnhanceFrame(id, desc) ==
    [IdleFrame EXCEPT !.op = "enhance", !.pc = "get_rlock", !.id = id, !.desc = desc]

\* getProduct / getCatalog: api.enhanceDescription(ctx, id, name, description)
CallEnhance(p) ==
    /\ fr[p].pc = "idle"
    /\ enhancementAvailable(aiClient, aiCache)
    /\ \E id \in ProductIDs, desc \in Descs :
         fr' = [fr EXCEPT ![p] = EnhanceFrame(id, desc)]
    /\ UNCHANGED <<aiClient, aiCache, rq, daprClient, memCache, mu, store, now, lastSet>>

\* a direct caller of Cache.Get
CallGet(p) ==
    /\ fr[p].pc = "idle"
    /\ \E id \in ProductIDs :
         fr' = [fr EXCEPT ![p] =
             [IdleFrame EXCEPT !.op = "Get", !.pc = "get_rlock", !.id = id]]
    /\ UNCHANGED <<aiClient, aiCache, rq, daprClient, memCache, mu, store, now, lastSet>>

\* a direct caller of Cache.Set
CallSet(p) ==
    /\ fr[p].pc = "idle"
    /\ \E id \in ProductIDs, v \in Values :
         fr' = [fr EXCEPT ![p] =
             [IdleFrame EXCEPT !.op = "Set", !.pc = "set_lock", !.id = id,
                               !.value = v,
                               !.setCalls = 1]]
    /\ UNCHANGED <<aiClient, aiCache, rq, daprClient, memCache, mu, store, now, lastSet>>

\* a direct caller of Client.GenerateDescription
CallGenerate(p) ==
    /\ fr[p].pc = "idle"
    /\ \E desc \in GenDescs :
         fr' = [fr EXCEPT ![p] =
             GenerateDescription([IdleFrame EXCEPT !.op = "Generate", !.desc = desc])]
    /\ UNCHANGED <<aiClient, aiCache, rq, daprClient, memCache, mu, store, now, lastSet>>

\* the call's result has been handed to its caller
Return(p) ==
    /\ fr[p].pc = "done"
    /\ fr' = [fr EXCEPT ![p] = IdleFrame]
    /\ UNCHANGED <<aiClient, aiCache, rq, daprClient, memCache, mu, store, now, lastSet>>

\* ------------------------------------------------------- HTTP handlers
Product(id, desc) == [id |-> id, desc |-> desc]

\* api.service.QueryProducts("ID", id): an error, no rows, or the product
QueryProducts(id) ==
    {[err |-> TRUE, products |-> <<>>], [err |-> FALSE, products |-> <<>>]}
    \cup {[err |-> FALSE, products |-> <<Product(id, d)>>] : d \in Descs}

\* api.service.AllProducts(): an error, or the listed products in order
AllProducts ==
    {[err |-> TRUE, products |-> <<>>]}
    \cup UNION {{[err |-> FALSE,
                  products |-> [i \in 1..n |-> Product(AllIDs[i], d[i])]] :
                    d \in [1..n -> Descs]} : n \in 0..MaxCatalog}

\* The handler after its query: 500 or 404 without enhancement; otherwise the
\* first enhanceDescription call if enhancement is available and there is a
\* product to enhance, else the reply with the products as fetched.
Fetched(p, kind, res) ==
    IF res.err
    THEN /\ rq' = [rq EXCEPT ![p] = [IdleReq EXCEPT !.kind = kind, !.pc = "replied",
                                                    !.status = 500]]
         /\ UNCHANGED fr
    ELSE IF kind = "getProduct" /\ Len(res.products) < 1
    THEN /\ rq' = [rq EXCEPT ![p] = [IdleReq EXCEPT !.kind = kind, !.pc = "replied",
                                                    !.status = 404]]
         /\ UNCHANGED fr
    ELSE IF enhancementAvailable(aiClient, aiCache) /\ Len(res.products) > 0
    THEN /\ rq' = [rq EXCEPT ![p] = [IdleReq EXCEPT !.kind = kind, !.pc = "enhancing",
                                                    !.orig = res.products,
                                                    !.products = res.products,
                                                    !.i = 1, !.attempts = 1]]
         /\ fr' = [fr EXCEPT ![p] =
                EnhanceFrame(res.products[1].id, res.products[1].desc)]
    ELSE /\ rq' = [rq EXCEPT ![p] = [IdleReq EXCEPT !.kind = kind, !.pc = "replied",
                                                    !.orig = res.products,
                                                    !.products = res.products,
                                                    !.status = 200]]
         /\ UNCHANGED fr

\* GET /get/{id}
getProduct(p) ==
    /\ rq[p].pc = "idle" /\ fr[p].pc = "idle"
    /\ \E id \in CatalogIDs : \E res \in QueryProducts(id) : Fetched(p, "getProduct", res)
    /\ UNCHANGED <<aiClient, aiCache, daprClient, memCache, mu, store, now, lastSet>>

\* GET /catalog
getCatalog(p) ==
    /\ rq[p].pc = "idle" /\ fr[p].pc = "idle"
    /\ \E res \in AllProducts : Fetched(p, "getCatalog", res)
    /\ UNCHANGED <<aiClient, aiCache, daprClient, memCache, mu, store, now, lastSet>>

\* products[i].Description = api.enhanceDescription(...): the call returned;
\* getCatalog goes on to the next product, the last one leads to the reply.
Enhanced(p) ==
    /\ rq[p].pc = "enhancing" /\ fr[p].pc = "done"
    /\ LET r == [rq[p] EXCEPT !.products[rq[p].i].desc = fr[p].result]
       IN IF r.i < Len(r.products)
          THEN /\ rq' = [rq EXCEPT ![p] = [r EXCEPT !.i = @ + 1, !.attempts = @ + 1]]
               /\ fr' = [fr EXCEPT ![p] =
                      EnhanceFrame(r.products[r.i + 1].id, r.products[r.i + 1].desc)]
          ELSE /\ rq' = [rq EXCEPT ![p] = [r EXCEPT !.pc = "replied", !.status = 200]]
               /\ fr' = [fr EXCEPT ![p] = IdleFrame]
    /\ UNCHANGED <<aiClient, aiCache, daprClient, memCache, mu, store, now, lastSet>>

\* api.ReturnJSON / problem.Send: the response is out, the handler returns
Replied(p) ==
    /\ rq[p].pc = "replied"
    /\ rq' = [rq EXCEPT ![p] = IdleReq]
    /\ UNCHANGED <<aiClient, aiCache, daprClient, memCache, mu, store, now, fr, lastSet>>

\* the wall clock advances
Tick ==
    /\ now + TickHours <= MaxTime
    /\ now' = now + TickHours
    /\ UNCHANGED <<aiClient, aiCache, rq, daprClient, memCache, mu, store, fr, lastSet>>

\* ------------------------------------------------------- specifications
\* The service: request goroutines run the orchestrator.
Next ==
    \/ \E p \in Procs :
         \/ CallEnhance(p)
         \/ GetRLock(p) \/ GetRead(p) \/ GetDapr(p)
         \/ GenRespond(p) \/ GenDeadline(p)
         \/ SetLock(p) \/ SetWrite(p) \/ SetDapr(p)
         \/ Return(p)
    \/ Tick

Spec == Init /\ [][Next]_vars

\* The same service within one reading of the clock (a call lasts seconds, the
\* clock counts half TTLs), under the scheduling the runtime provides.
NextLive ==
    \E p \in Procs :
        \/ CallEnhance(p)
        \/ GetRLock(p) \/ GetRead(p) \/ GetDapr(p)
        \/ GenRespond(p) \/ GenDeadline(p)
        \/ SetLock(p) \/ SetWrite(p) \/ SetDapr(p)
        \/ Return(p)

\* sync.RWMutex hands the lock to every waiter in turn: a pending Lock holds
\* back new readers, and Unlock wakes the readers that queued behind it.
Acquire(p) == GetRLock(p) \/ SetLock(p)

\* A goroutine inside Get or Set takes its next step, the Dapr sidecar answers,
\* and the deadline timer of the generation context fires.
Proceed(p) == GetRead(p) \/ GetDapr(p) \/ SetWrite(p) \/ SetDapr(p) \/ GenDeadline(p)

\* Nothing obliges the generation service to answer or a request to arrive.
Fairness == \A p \in Procs : SF_vars(Acquire(p)) /\ WF_vars(Proceed(p))

SpecLive == Init /\ [][NextLive]_vars /\ Fairness

\* The Generation Client on its own: one goroutine calls GenerateDescription.
NextGen ==
    \/ CallGenerate("req1")
    \/ GenRespond("req1") \/ GenDeadline("req1")
    \/ Return("req1")

SpecGen == Init /\ [][NextGen]_vars

\* The service as main() leaves it, serving GET /get/{id} and GET /catalog.
\* AZURE_OPENAI_ENDPOINT may be unset and ai.NewClient may fail: then aiClient
\* and aiCache both stay nil. The cache has a Dapr client in Dapr mode only.
\* Requests are served within one reading of the clock.
InitRequests ==
    /\ \E endpoint, built \in BOOLEAN : aiClient = (endpoint /\ built)
    /\ aiCache = aiClient
    /\ \E dapr \in BOOLEAN : daprClient = (aiCache /\ dapr)
    /\ rq = [p \in Procs |-> IdleReq]
    /\ memCache = [k \in KeySet |-> NoEntry]
    /\ mu = [r |-> {}, w |-> {}]
    /\ store \in [KeySet -> {NoItem, [value |-> GenB, ttlInSeconds |-> cacheTTL * SecondsPerHour]}]
    /\ (~daprClient => store = [k \in KeySet |-> NoItem])
    /\ now = 0
    /\ fr = [p \in Procs |-> IdleFrame]
    /\ lastSet = [k \in KeySet |-> NoSet]

NextRequests ==
    \/ getProduct("req1") \/ getCatalog("req1")
    \/ GetRLock("req1") \/ GetRead("req1") \/ GetDapr("req1")
    \/ GenRespond("req1") \/ GenDeadline("req1")
    \/ SetLock("req1") \/ SetWrite("req1") \/ SetDapr("req1")
    \/ Enhanced("req1") \/ Replied("req1")

SpecRequests == InitRequests /\ [][NextRequests]_vars

\* The cache on its own: goroutines call Cache.Get and Cache.Set directly.
NextCache ==
    \/ \E p \in Procs :
         \/ CallGet(p) \/ CallSet(p)
         \/ GetRLock(p) \/ GetRead(p) \/ GetDapr(p)
         \/ SetLock(p) \/ SetWrite(p) \/ SetDapr(p)
         \/ Return(p)
    \/ Tick

SpecCache == Init /\ [][NextCache]_vars

\* =============================================================== claims
EvHit == <<"ai_description_cache_hits_total", "">>
EvLatency == <<"ai_description_latency_seconds", "">>
EvSuccess == <<"ai_description_requests_total", "success">>
EvError == <<"ai_description_requests_total", "error">>
EvGenerationFailed == <<"ai_description_errors_total", "generation_failed">>
EvCacheFailed == <<"ai_description_errors_total", "cache_failed">>

ErrorMetrics(ms) == Cardinality({i \in 1..Len(ms) : ms[i][1] = "ai_description_errors_total"})

EnhDone(p) == fr[p].op = "enhance" /\ fr[p].pc = "done"
GetDone(p) == fr[p].op = "Get" /\ fr[p].pc = "done"
SetDone(p) == fr[p].op = "Set" /\ fr[p].pc = "done"

\* C1: every completed enhanceDescription call whose current description was
\* non-empty has returned a non-empty string, whatever the cache and the
\* generation service did.
C1_NeverEmpty ==
    \A p \in Procs : (EnhDone(p) /\ fr[p].desc # Empty) => fr[p].result # Empty

\* C2: a call whose generation failed returned exactly the original description,
\* recorded one generation_failed error and one error outcome, and neither a
\* success outcome nor a latency sample.
C2_FallbackOnFailure ==
    \A p \in Procs :
        (EnhDone(p) /\ fr[p].genErr # NilErr) =>
            /\ fr[p].result = fr[p].desc
            /\ Count(fr[p].metrics, EvGenerationFailed) = 1
            /\ ErrorMetrics(fr[p].metrics) = 1
            /\ Count(fr[p].metrics, EvError) = 1
            /\ Count(fr[p].metrics, EvSuccess) = 0
            /\ Count(fr[p].metrics, EvLatency) = 0

C2_Witness ==
    \E p \in Procs :
        /\ EnhDone(p) /\ fr[p].genErr # NilErr
        /\ fr[p].desc = Short /\ fr[p].result = Short
        /\ fr[p].extCalls = 1

\* C3: a call whose lookup met an unexpired in-process entry (a value cached by
\* an earlier call's write, still inside its 24h window) never invokes the
\* Generation Client, and ends with one cache-hit metric and the cached value.
C3_HitShortCircuit ==
    \A p \in Procs :
        (fr[p].op = "enhance" /\ fr[p].sawFresh) =>
            /\ fr[p].genCalls = 0
            /\ fr[p].pc = "done"
            /\ Count(fr[p].metrics, EvHit) = 1
            /\ fr[p].result = fr[p].sawValue

\* C4: a Get that met an unexpired in-process entry returned that entry's value
\* with no error and without asking the Dapr tier.
C4_MemoryAuthoritative ==
    \A p \in Procs :
        (GetDone(p) /\ fr[p].sawFresh) =>
            /\ fr[p].cached = fr[p].sawValue
            /\ fr[p].getErr = NilErr
            /\ fr[p].durableReads = 0

C4_Witness ==
    \E p \in Procs :
        /\ GetDone(p) /\ fr[p].sawFresh /\ daprClient
        /\ fr[p].cached = GenA
        /\ store[Key(fr[p].id)].value = GenB

\* C5: a Set whose Dapr write failed returned the error and left the in-process
\* entry in place: it holds the new value with expiry write time + 24h unless a
\* later Set replaced it, and a Get that follows inside the TTL returns it.
C5_FailedDurableWriteKeepsMemory ==
    /\ \A p \in Procs :
          (SetDone(p) /\ fr[p].setErr # NilErr) =>
              LET k == Key(fr[p].id)
              IN /\ daprClient
                 /\ memCache[k].ok
                 /\ lastSet[k].proc = p =>
                       memCache[k] = [ok |-> TRUE, value |-> fr[p].value,
                                      expiresAt |-> lastSet[k].at + cacheTTL]
    /\ \A q \in Procs :
          (GetDone(q) /\ fr[q].setFailed /\ fr[q].setSeen = "live") =>
              fr[q].cached = fr[q].setValue /\ fr[q].getErr = NilErr

C5_Witness ==
    \E p, q \in Procs :
        /\ SetDone(p) /\ fr[p].setErr # NilErr /\ fr[p].value = GenA
        /\ lastSet[Key(fr[p].id)].proc = p
        /\ GetDone(q) /\ fr[q].setFailed /\ fr[q].setSeen = "live"
        /\ fr[q].cached = GenA
        /\ store[Key(fr[p].id)].value # GenA

\* C6: with no Dapr tier, the entry of the latest Set at time T expires at
\* T + 24h; a Get before T + 24h returns its value, a Get at or after T + 24h
\* reports not found.
C6_TTLExpiry ==
    ~daprClient =>
        /\ \A id \in ProductIDs :
              lastSet[Key(id)].proc # "none" =>
                  memCache[Key(id)].expiresAt = lastSet[Key(id)].at + cacheTTL
        /\ \A q \in Procs :
              GetDone(q) =>
                  /\ fr[q].setSeen = "live" =>
                        fr[q].cached = fr[q].setValue /\ fr[q].getErr = NilErr
                  /\ fr[q].setSeen \in {"at_expiry", "expired"} =>
                        fr[q].cached = Empty /\ fr[q].getErr = NilErr

C6_Witness ==
    /\ ~daprClient
    /\ \E p, q \in Procs :
          /\ GetDone(p) /\ fr[p].setSeen = "expired" /\ fr[p].setValue = GenA
          /\ fr[p].cached = Empty
          /\ GetDone(q) /\ fr[q].setSeen = "live" /\ fr[q].cached = GenB

\* C7 as stated: Get on an empty cache reports not found; after Set(id, v), once
\* or twice, for any v, a Get inside the TTL returns v as found (a non-empty
\* value with no error).
C7_RoundTripAnyValue ==
    \A q \in Procs :
        GetDone(q) =>
            /\ (fr[q].setSeen = "none" /\ fr[q].durable \in {"none", "empty"}) =>
                  fr[q].cached = Empty /\ fr[q].getErr = NilErr
            /\ fr[q].setSeen = "live" =>
                  /\ fr[q].cached = fr[q].setValue
                  /\ fr[q].getErr = NilErr
                  /\ fr[q].cached # Empty

\* C7 amended: the same for every non-empty v. (Get has no found flag: "" with a
\* nil error is how it reports not found, so Set(id, "") cannot be told apart
\* from an absent entry.)
C7_RoundTripNonEmpty ==
    \A q \in Procs :
        GetDone(q) =>
            /\ (fr[q].setSeen = "none" /\ fr[q].durable \in {"none", "empty"}) =>
                  fr[q].cached = Empty /\ fr[q].getErr = NilErr
            /\ (fr[q].setSeen = "live" /\ fr[q].setValue # Empty) =>
                  /\ fr[q].cached = fr[q].setValue
                  /\ fr[q].getErr = NilErr
                  /\ fr[q].cached # Empty

\* Set(id, v) on top of an entry already holding v, then Get(id) returns v.
C7_Witness ==
    \E p, q \in Procs :
        /\ SetDone(p) /\ fr[p].same /\ fr[p].value = GenB
        /\ lastSet[Key(fr[p].id)].proc = p
        /\ GetDone(q) /\ fr[q].setSeen = "live" /\ fr[q].cached = GenB
        /\ fr[q].id = fr[p].id

\* C8: a call whose lookup did not hit, by a Dapr error or by a plain miss alike,
\* went on to exactly one generation; it returns the generated description and
\* writes it to the cache if generation succeeded, the original description and
\* no write if not. The lookup's error is not what it returns.
C8_CacheErrorIsMiss ==
    \A p \in Procs :
        (EnhDone(p) /\ (fr[p].getErr # NilErr \/ fr[p].cached = Empty)) =>
            /\ fr[p].genCalls = 1
            /\ fr[p].genErr = NilErr =>
                  /\ fr[p].result = fr[p].description
                  /\ fr[p].setCalls = 1 /\ fr[p].value = fr[p].description
            /\ fr[p].genErr # NilErr =>
                  /\ fr[p].result = fr[p].desc
                  /\ fr[p].setCalls = 0

C8_Witness ==
    \E p \in Procs :
        /\ EnhDone(p) /\ fr[p].getErr # NilErr
        /\ fr[p].genErr = NilErr /\ fr[p].result = GenA /\ fr[p].setCalls = 1
        /\ memCache[Key(fr[p].id)].value = GenA

\* C9: every completed call whose cache lookup failed has recorded an error metric.
C9_CacheReadErrorMetriced ==
    \A p \in Procs :
        (EnhDone(p) /\ fr[p].getErr # NilErr) => ErrorMetrics(fr[p].metrics) >= 1

\* C10: a call whose generation succeeded and whose cache write failed recorded
\* one cache_failed error, the success outcome and a latency sample, no error
\* outcome, and returned the generated description.
C10_CacheWriteFailure ==
    \A p \in Procs :
        (EnhDone(p) /\ fr[p].genErr = NilErr /\ fr[p].setErr # NilErr) =>
            /\ Count(fr[p].metrics, EvCacheFailed) = 1
            /\ ErrorMetrics(fr[p].metrics) = 1
            /\ Count(fr[p].metrics, EvSuccess) = 1
            /\ Count(fr[p].metrics, EvLatency) = 1
            /\ Count(fr[p].metrics, EvError) = 0
            /\ fr[p].result = fr[p].description

C10_Witness ==
    \E p \in Procs :
        /\ EnhDone(p) /\ fr[p].genErr = NilErr /\ fr[p].setErr # NilErr
        /\ fr[p].extCalls = 1 /\ fr[p].result = GenA

\* C11: there is no single-flight. No call holds Cache.mu, for reading or for
\* writing, while its request to the generation service is in progress; so a
\* second call for the same product is never kept from generating as well.
C11_NoLockAcrossGeneration ==
    \A p \in Procs :
        fr[p].pc = "gen_wait" => (p \notin mu.r /\ p \notin mu.w)

\* Two overlapping calls for the same product, nothing cached in either tier:
\* both have their own request to the generation service in flight.
C11_Witness ==
    \E p, q \in Procs :
        /\ p # q /\ fr[p].id = fr[q].id
        /\ fr[p].op = "enhance" /\ fr[q].op = "enhance"
        /\ fr[p].pc = "gen_wait" /\ fr[q].pc = "gen_wait"
        /\ fr[p].extCalls = 1 /\ fr[q].extCalls = 1
        /\ ~memCache[Key(fr[p].id)].ok
        /\ store[Key(fr[p].id)] = NoItem

\* C14: every completed enhanceDescription call has recorded at least one
\* metric: the cache-hit counter on a hit, the success outcome after a
\* successful generation, the error outcome after a failed one.
C14_MetricOnEveryPath ==
    \A p \in Procs :
        EnhDone(p) =>
            /\ Len(fr[p].metrics) >= 1
            /\ (fr[p].genCalls = 0) => Count(fr[p].metrics, EvHit) = 1
            /\ (fr[p].genCalls = 1 /\ fr[p].genErr = NilErr) =>
                  Count(fr[p].metrics, EvSuccess) = 1
            /\ (fr[p].genCalls = 1 /\ fr[p].genErr # NilErr) =>
                  Count(fr[p].metrics, EvError) = 1
            /\ fr[p].genCalls \in {0, 1}

C14_Witness ==
    \E p \in Procs :
        /\ EnhDone(p) /\ fr[p].genCalls = 0
        /\ fr[p].result = GenA /\ fr[p].metrics = <<EvHit>>

\* C15: Cache.Get never changes the in-process map: a value found in the Dapr
\* tier is not copied back and an expired entry is not removed. An entry changes
\* only in the step where a Set writes it, and that step installs the new value
\* with expiry now + 24h whatever entry, expired or not, was there.
C15_GetLeavesMemory ==
    [][ /\ \A k \in KeySet :
              memCache'[k] # memCache[k] =>
                  \E p \in Procs :
                      /\ fr[p].op = "Set" /\ fr[p].pc = "set_write" /\ Key(fr[p].id) = k
                      /\ fr'[p].pc # "set_write"
        /\ \A p \in Procs :
              (fr[p].pc = "set_write" /\ fr'[p].pc # "set_write") =>
                  memCache'[Key(fr[p].id)] =
                      [ok |-> TRUE, value |-> fr[p].value, expiresAt |-> now + cacheTTL]
        /\ \A p \in Procs :
              (fr[p].op = "Get" /\ fr'[p] # fr[p]) => memCache' = memCache
      ]_vars

\* A Get has met an expired entry, fetched another value from the Dapr tier and
\* returned it; the expired entry is still in the map and the fetched value is not.
C15_Witness ==
    \E p \in Procs :
        LET k == Key(fr[p].id)
        IN /\ GetDone(p) /\ fr[p].durable = "item" /\ fr[p].cached = GenB
           /\ memCache[k].ok /\ memCache[k].value = GenA
           /\ now >= memCache[k].expiresAt

\* C16: Cache.mu is a readers-writer lock around the map. At most one goroutine
\* holds it for writing and then nobody holds it for reading; a goroutine holds
\* it for reading exactly while it is at Get's map read and for writing exactly
\* while it is at Set's map write, so it is released before every return and
\* before every call to the Dapr tier.
C16_LockDiscipline ==
    /\ Cardinality(mu.w) <= 1
    /\ mu.w # {} => mu.r = {}
    /\ \A p \in Procs :
          /\ p \in mu.r <=> fr[p].pc = "get_read"
          /\ p \in mu.w <=> fr[p].pc = "set_write"
    /\ \A p, q \in Procs :
          (p # q /\ fr[p].pc = "set_write") => fr[q].pc \notin {"get_read", "set_write"}

\* Two Gets read the map at the same time.
C16_Witness ==
    /\ mu.r = Procs
    /\ \A p \in Procs : fr[p].op = "Get" /\ fr[p].pc = "get_read"

\* C17: inside enhanceDescription a cache write, to either tier, happens only
\* after GenerateDescription returned without error in the same call; a call
\* that hit the cache or whose generation failed writes nothing; and no call
\* reads the cache after it has started writing it.
C17_WriteOnlyAfterGeneration ==
    /\ [](\A p \in Procs :
             fr[p].op = "enhance" =>
                 /\ (fr[p].setCalls > 0 \/ fr[p].pc \in {"set_lock", "set_write", "set_dapr"}) =>
                       /\ fr[p].genCalls = 1 /\ fr[p].genErr = NilErr
                       /\ fr[p].setCalls = 1 /\ fr[p].value = fr[p].description
                 /\ (fr[p].pc = "done" /\ (fr[p].genCalls = 0 \/ fr[p].genErr # NilErr)) =>
                       fr[p].setCalls = 0
                 /\ fr[p].pc \in {"get_rlock", "get_read", "get_dapr"} => fr[p].setCalls = 0
                 /\ fr[p].durableReads <= 1)
    /\ [][ (memCache' # memCache \/ store' # store) =>
              \E p \in Procs :
                  /\ fr[p].op = "enhance"
                  /\ fr[p].genCalls = 1 /\ fr[p].genErr = NilErr
                  /\ fr[p].pc \in {"set_write", "set_dapr"} /\ fr'[p].pc # fr[p].pc
         ]_vars

\* A call read the Dapr tier, missed, generated, and wrote both tiers.
C17_Witness ==
    \E p \in Procs :
        LET k == Key(fr[p].id)
        IN /\ EnhDone(p) /\ daprClient
           /\ fr[p].durableReads = 1 /\ fr[p].genErr = NilErr /\ fr[p].extCalls = 1
           /\ fr[p].setCalls = 1 /\ fr[p].setErr = NilErr
           /\ fr[p].description = GenA
           /\ memCache[k].value = GenA /\ store[k].value = GenA

\* C20: once two overlapping Set calls for the same product have both returned
\* with their Dapr writes accepted, the in-process entry and the Dapr item hold
\* the same value.
C20_TiersAgreeAfterSets ==
    \A p, q \in Procs :
        LET k == Key(fr[p].id)
        IN (/\ p # q /\ daprClient
            /\ SetDone(p) /\ SetDone(q) /\ fr[p].id = fr[q].id
            /\ fr[p].value # Empty /\ fr[q].value # Empty
            /\ fr[p].setErr = NilErr /\ fr[q].setErr = NilErr) =>
               (memCache[k].ok /\ memCache[k].value = store[k].value)

C13_CallsReturn ==
    /\ \A p \in Procs : (fr[p].pc # "idle") ~> (fr[p].pc = "done")
    /\ [](\A p \in Procs :
             fr[p].answer = "deadline" =>
                 /\ fr[p].pc = "done" /\ fr[p].genErr # NilErr
                 /\ fr[p].result = fr[p].desc)

C13_Witness ==
    \E p \in Procs :
        /\ EnhDone(p) /\ fr[p].answer = "deadline"
        /\ fr[p].desc = Short /\ fr[p].result = Short
        /\ Count(fr[p].metrics, EvGenerationFailed) = 1

\* C12: a description is a placeholder exactly when it is shorter than 20 or
\* contains "..."; GenerateDescription returns a description that is not a
\* placeholder unchanged, with no error and without a request to the generation
\* service, and sends one request for every placeholder.
C12_PlaceholderDetection ==
    \A p \in Procs :
        (fr[p].op = "Generate" /\ fr[p].pc # "idle") =>
            LET d == fr[p].desc
                placeholder ==
                    \/ Len(d) < 20
                    \/ \E i \in 1..(Len(d) - 2) : SubSeq(d, i, i + 2) = <<".", ".", ".">>
            IN /\ isPlaceholder(d) <=> placeholder
               /\ ~placeholder =>
                     /\ fr[p].pc = "done" /\ fr[p].description = d
                     /\ fr[p].genErr = NilErr
                     /\ fr[p].extCalls = 0 /\ fr[p].answer = "none"
               /\ placeholder => fr[p].extCalls = 1
               /\ fr[p].genCalls = 1

\* A description of exactly 20 bytes with two dots in a row came back as it was.
C12_Witness ==
    \E p \in Procs :
        /\ fr[p].op = "Generate" /\ fr[p].pc = "done"
        /\ fr[p].desc = Run(10, 2, 8, 0)
        /\ fr[p].description = fr[p].desc /\ fr[p].genErr = NilErr
        /\ fr[p].extCalls = 0

\* C19: with aiClient or aiCache absent a request skips enhancement: no
\* enhanceDescription call, hence no cache read or write, no generation and no
\* metric, and the products go out with the descriptions they were fetched
\* with. With both present getProduct makes exactly one enhancement attempt for
\* the product and getCatalog exactly one for each listed product.
C19_EnhancementGuard ==
    /\ [](\A p \in Procs :
             /\ ~(aiClient /\ aiCache) =>
                   /\ fr[p] = IdleFrame /\ rq[p].attempts = 0
                   /\ rq[p].pc = "replied" => rq[p].products = rq[p].orig
             /\ (aiClient /\ aiCache /\ rq[p].pc = "replied" /\ rq[p].status = 200) =>
                   /\ rq[p].attempts = Len(rq[p].orig)
                   /\ rq[p].kind = "getProduct" => rq[p].attempts = 1
             /\ rq[p].pc = "enhancing" =>
                   /\ rq[p].attempts = rq[p].i
                   /\ fr[p].op = "enhance" /\ fr[p].id = rq[p].orig[rq[p].i].id
                   /\ fr[p].desc = rq[p].orig[rq[p].i].desc
             /\ rq[p].status \in {404, 500} => rq[p].attempts = 0)
    /\ [][ ~(aiClient /\ aiCache) => UNCHANGED <<memCache, store, mu, fr, lastSet>> ]_vars
    /\ [][ \A p \in Procs :
              (fr'[p].op = "enhance" /\ fr[p].op # "enhance") =>
                  rq'[p].attempts = rq[p].attempts + 1 ]_vars

\* getCatalog answered with both listed products after one attempt each: the
\* first description was generated, the second was left as it was.
C19_Witness ==
    \E p \in Procs :
        /\ aiClient /\ aiCache
        /\ rq[p].kind = "getCatalog" /\ rq[p].pc = "replied" /\ rq[p].status = 200
        /\ Len(rq[p].orig) = 2 /\ rq[p].attempts = 2
        /\ rq[p].orig[1].desc = Short /\ rq[p].products[1].desc = GenA
        /\ rq[p].products[2].desc = RealDesc
        /\ memCache[Key("p2")].ok

\* C21: a call that missed the cache with a current description that is not a
\* placeholder sent no request to the generation service and still took the
\* success path: it wrote the current description, unchanged, to the cache
\* under the product's key, recorded the success outcome and a latency sample,
\* and returned the current description. A later call for the product that
\* finds this entry inside its TTL returns it, whatever current description the
\* later call was given.
C21_PassThroughIsCached ==
    /\ \A p \in Procs :
          (/\ fr[p].op = "enhance" /\ fr[p].genCalls = 1
           /\ Len(fr[p].desc) >= 20 /\ ~ContainsEllipsis(fr[p].desc)) =>
              LET k == Key(fr[p].id)
              IN /\ fr[p].extCalls = 0 /\ fr[p].answer = "none"
                 /\ fr[p].genErr = NilErr /\ fr[p].description = fr[p].desc
                 /\ fr[p].setCalls = 1 /\ fr[p].value = fr[p].desc
                 /\ fr[p].pc \in {"set_lock", "set_write", "set_dapr", "done"}
                 /\ (fr[p].pc \in {"set_dapr", "done"} /\ lastSet[k].proc = p) =>
                       memCache[k] = [ok |-> TRUE, value |-> fr[p].desc,
                                      expiresAt |-> lastSet[k].at + cacheTTL]
                 /\ fr[p].pc = "done" =>
                       /\ fr[p].result = fr[p].desc
                       /\ Count(fr[p].metrics, EvSuccess) = 1
                       /\ Count(fr[p].metrics, EvLatency) = 1
                       /\ Count(fr[p].metrics, EvError) = 0
    /\ \A q \in Procs :
          (/\ EnhDone(q) /\ fr[q].setSeen = "live"
           /\ Len(fr[q].setValue) >= 20 /\ ~ContainsEllipsis(fr[q].setValue)) =>
              /\ fr[q].result = fr[q].setValue
              /\ fr[q].genCalls = 0 /\ fr[q].setCalls = 0
              /\ Count(fr[q].metrics, EvHit) = 1

\* One call passed a real description through and cached it; an overlapping
\* later call, given a short placeholder for the same product, got the cached
\* description back.
C21_Witness ==
    \E p, q \in Procs :
        /\ p # q /\ fr[p].id = fr[q].id
        /\ EnhDone(p) /\ fr[p].desc = RealDesc /\ fr[p].genCalls = 1
        /\ fr[p].extCalls = 0 /\ fr[p].setCalls = 1 /\ fr[p].result = RealDesc
        /\ EnhDone(q) /\ fr[q].desc = Short /\ fr[q].setSeen = "live"
        /\ fr[q].setValue = RealDesc /\ fr[q].result = RealDesc
        /\ fr[q].genCalls = 0

====
